---- MODULE Spec2Model ----
(***************************************************************************)
(* Model of the two programs of crest_analysis:                            *)
(*   rmsd_conformer_xyz.py  - RMSD of every conformer against the first,   *)
(*                            classification into four bands, report;     *)
(*   xyz2com_crest_pc.py    - per-frame Gaussian input files and bond      *)
(*                            length / angle / dihedral logs.             *)
(* Both read the same multi-frame XYZ file, modelled as a sequence of      *)
(* lines.  Coordinates are integers (exact reals); a square root is kept   *)
(* as its radicand, an arccos as its argument, so every comparison the     *)
(* code makes on them is decided exactly.                                  *)
(***************************************************************************)
EXTENDS Integers, Sequences, FiniteSets, TLC

VARIABLES
    xyz_file,      \* the lines of crest_conformers.xyz
    pc,            \* position of the running program
    conformers,    \* rmsd main: result of read_xyz
    adjusted,      \* rmsd main: adjusted_conformers
    rmsd_values,   \* rmsd main / write_rmsd_to_file: the RMSD list
    report,        \* rmsd_output.txt: absent, or values and categories
    opts,          \* xyz2com main: sys.argv and whether the folder exists
    loc,           \* xyz2com main: its local variables
    fs,            \* xyz2com main: what the run has put on disk
    reads,         \* xyz2com main: the raw lines handed to calc_*
    measure        \* results of the geometry functions applied on their own

rmsdVars == <<conformers, adjusted, rmsd_values, report>>
convVars == <<opts, loc, fs, reads>>
vars == <<xyz_file, pc, conformers, adjusted, rmsd_values, report,
          opts, loc, fs, reads, measure>>

(* ------------------------------ bounds -------------------------------- *)
MaxAtoms == 2      \* atoms per frame of a generated input file
MaxConf == 2       \* frames per generated input file
MaxIdx == 2        \* largest atom index a measurement flag names
MaxCoord == 1      \* coordinates of the points given to calc_dihedral
MaxValues == 2     \* RMSD values handed to write_rmsd_to_file on its own
MaxNum == 4        \* an RMSD value is sqrt(num / den), num in 0..MaxNum
MaxDen == 4        \*                                   den in 1..MaxDen

(* ------------------------- the XYZ file as lines ----------------------- *)
\* A line is an atom-count line (one integer token), a coordinate line
\* (label x y z) or a line of one non-numeric token (comment, damage).
CountLine(n) == [kind |-> "count", n |-> n, xyz |-> <<0, 0, 0>>]
AtomLine(p) == [kind |-> "atom", n |-> 0, xyz |-> p]
TextLine == [kind |-> "text", n |-> 0, xyz |-> <<0, 0, 0>>]

\* Python's 0-based lines[i]
Line(ls, i) == ls[i + 1]

RECURSIVE Concat(_)
Concat(ss) == IF ss = <<>> THEN <<>> ELSE Head(ss) \o Concat(Tail(ss))

\* the lines of one well-formed frame holding the points of f
FrameLines(f) ==
    <<CountLine(Len(f)), TextLine>> \o [k \in 1..Len(f) |-> AtomLine(f[k])]

EnsembleLines(ens) == Concat([k \in 1..Len(ens) |-> FrameLines(ens[k])])

Points == {<<0, 0, 0>>, <<1, 0, 0>>}
FramesOver(P) == UNION {[1..n -> P] : n \in 0..MaxAtoms}
EnsemblesOver(P) == UNION {[1..m -> FramesOver(P)] : m \in 0..MaxConf}

\* damage a file: nothing, a line replaced by text, or the last line lost
Damaged(ls) ==
    {ls}
    \cup {[ls EXCEPT ![k] = TextLine] : k \in {j \in 1..Len(ls) : ls[j].kind = "count"}}
    \cup (IF ls = <<>> THEN {} ELSE {SubSeq(ls, 1, Len(ls) - 1)})

InputFiles == UNION {Damaged(EnsembleLines(e)) : e \in EnsemblesOver(Points)}

(* -------------------------- rmsd_conformer_xyz ------------------------- *)
Failure == [ok |-> FALSE, val |-> <<>>]
Success(v) == [ok |-> TRUE, val |-> v]

\* read_xyz: the while loop from line index i with the conformers read so far
RECURSIVE ReadFrames(_, _, _)
ReadFrames(ls, i, acc) ==
    IF i >= Len(ls) THEN Success(acc)
    ELSE IF Line(ls, i).kind # "count" THEN Failure          \* int(): ValueError
    ELSE LET n == Line(ls, i).n
             at == {i + 2 + k : k \in 0..(n - 1)}
         IN  IF \E j \in at : j >= Len(ls) THEN Failure      \* lines[i]: IndexError
             ELSE IF \E j \in at : Line(ls, j).kind # "atom" THEN Failure
             ELSE ReadFrames(ls, i + 2 + n,
                     Append(acc, [k \in 1..n |-> Line(ls, i + 1 + k).xyz]))

read_xyz(ls) == ReadFrames(ls, 0, <<>>)

VecSub(u, v) == <<u[1] - v[1], u[2] - v[2], u[3] - v[3]>>
Dot(u, v) == u[1] * v[1] + u[2] * v[2] + u[3] * v[3]

\* faulty variant: the frame is returned as read
adjust_not_shifted(coords) ==
    IF Len(coords) = 0 THEN Failure ELSE Success(coords)

\* coords - coords[0]; an empty array has no row 0 (IndexError)
adjust_relative_to_first_atom(coords) ==
    IF Len(coords) = 0 THEN Failure
    ELSE Success([k \in 1..Len(coords) |-> VecSub(coords[k], coords[1])])

RECURSIVE SumSeq(_)
SumSeq(s) == IF s = <<>> THEN 0 ELSE Head(s) + SumSeq(Tail(s))

\* faulty variant: the differences are summed unsquared
calculate_rmsd_unsquared(coords1, coords2) ==
    LET n1 == Len(coords1)
        n2 == Len(coords2)
        n == IF n1 >= n2 THEN n1 ELSE n2
        row(c, k) == IF Len(c) = 1 THEN c[1] ELSE c[k]
        diff == [k \in 1..n |-> VecSub(row(coords1, k), row(coords2, k))]
    IN  IF n1 # n2 /\ n1 # 1 /\ n2 # 1 THEN Failure
        ELSE Success([num |-> SumSeq([k \in 1..n |-> Dot(diff[k], <<1, 1, 1>>)]),
                      den |-> n1])

\* numpy's coords1 - coords2 on shapes (n1,3) and (n2,3): elementwise when the
\* row counts agree, the single row repeated when one of them is 1, ValueError
\* otherwise.  The value is sqrt(num / den), kept as the pair.
calculate_rmsd(coords1, coords2) ==
    LET n1 == Len(coords1)
        n2 == Len(coords2)
        n == IF n1 >= n2 THEN n1 ELSE n2
        row(c, k) == IF Len(c) = 1 THEN c[1] ELSE c[k]
        diff == [k \in 1..n |-> VecSub(row(coords1, k), row(coords2, k))]
    IN  IF n1 # n2 /\ n1 # 1 /\ n2 # 1 THEN Failure
        ELSE Success([num |-> SumSeq([k \in 1..n |-> Dot(diff[k], diff[k])]),
                      den |-> n1])

\* comparisons of sqrt(num/den) with the band limits 0.5, 1.0, 2.0
LtHalf(r) == 4 * r.num < r.den
GeHalf(r) == 4 * r.num >= r.den
LtOne(r) == r.num < r.den
GeOne(r) == r.num >= r.den
LtTwo(r) == r.num < 4 * r.den

\* faulty variant: the first test reads rmsd <= 0.5
CategoryInclusive(r) ==
    IF 4 * r.num <= r.den THEN "smaller_than_0.5"
    ELSE IF GeHalf(r) /\ LtOne(r) THEN "0.5_to_1.0"
    ELSE IF GeOne(r) /\ LtTwo(r) THEN "1.0_to_2.0"
    ELSE "above_2.0"

\* write_rmsd_to_file: the if / elif chain for one value
Category(r) ==
    IF LtHalf(r) THEN "smaller_than_0.5"
    ELSE IF GeHalf(r) /\ LtOne(r) THEN "0.5_to_1.0"
    ELSE IF GeOne(r) /\ LtTwo(r) THEN "1.0_to_2.0"
    ELSE "above_2.0"

CategoryNames == {"smaller_than_0.5", "0.5_to_1.0", "1.0_to_2.0", "above_2.0"}

\* the 1-based indices appended to one category, in enumeration order
RECURSIVE Members(_, _, _)
Members(vals, c, i) ==
    IF i > Len(vals) THEN <<>>
    ELSE (IF Category(vals[i]) = c THEN <<i>> ELSE <<>>) \o Members(vals, c, i + 1)

Categories(vals) == [c \in CategoryNames |-> Members(vals, c, 1)]

NoReport == [written |-> FALSE, values |-> <<>>, categories |-> [c \in CategoryNames |-> <<>>]]

\* the other programs' variables while they do not run
IdleOpts == [folder_exists |-> FALSE, argv_ok |-> TRUE, l |-> <<>>, a |-> <<>>,
             d |-> <<>>, n |-> <<>>]
IdleLoc == [num_atom |-> 0, num_conf |-> 0, trsd |-> 0, i |-> 0,
            bd |-> <<0, 0>>, angle |-> <<0, 0, 0>>, dihedral |-> <<0, 0, 0, 0>>,
            bd_length_asb |-> <<>>, angle_asb |-> <<>>, dihedral_asb |-> <<>>]
NoFiles == [folder |-> FALSE, com |-> {}, bond_length |-> <<>>, angle |-> <<>>,
            dihedral |-> <<>>, plots |-> {}]
ConvIdle == opts = IdleOpts /\ loc = IdleLoc /\ fs = NoFiles /\ reads = {}
RmsdIdle == conformers = <<>> /\ adjusted = <<>> /\ rmsd_values = <<>> /\ report = NoReport

\* main, step 1
ReadXyz ==
    /\ pc = "read"
    /\ LET r == read_xyz(xyz_file)
       IN  /\ pc' = IF r.ok THEN "adjust" ELSE "error"
           /\ conformers' = r.val
    /\ UNCHANGED <<xyz_file, adjusted, rmsd_values, report, convVars, measure>>

\* main, step 2 and the choice of the reference conformer
AdjustAll ==
    /\ pc = "adjust"
    /\ LET rs == [k \in 1..Len(conformers) |-> adjust_relative_to_first_atom(conformers[k])]
       IN  IF (\E k \in 1..Len(rs) : ~rs[k].ok) \/ Len(rs) = 0
           THEN pc' = "error" /\ UNCHANGED adjusted
           ELSE pc' = "rmsd" /\ adjusted' = [k \in 1..Len(rs) |-> rs[k].val]
    /\ UNCHANGED <<xyz_file, conformers, rmsd_values, report, convVars, measure>>

\* main, step 3: one iteration of the loop over adjusted_conformers
CalcRmsd ==
    /\ pc = "rmsd"
    /\ Len(rmsd_values) < Len(adjusted)
    /\ LET r == calculate_rmsd(adjusted[1], adjusted[Len(rmsd_values) + 1])
       IN  IF ~r.ok
           THEN pc' = "error" /\ UNCHANGED rmsd_values
           ELSE /\ rmsd_values' = Append(rmsd_values, r.val)
                /\ pc' = IF Len(rmsd_values) + 1 = Len(adjusted) THEN "write" ELSE "rmsd"
    /\ UNCHANGED <<xyz_file, conformers, adjusted, report, convVars, measure>>

\* main, step 4: write_rmsd_to_file
WriteRmsdToFile ==
    /\ pc = "write"
    /\ report' = [written |-> TRUE, values |-> rmsd_values,
                  categories |-> Categories(rmsd_values)]
    /\ pc' = "done"
    /\ UNCHANGED <<xyz_file, conformers, adjusted, rmsd_values, convVars, measure>>

InitRmsd ==
    /\ xyz_file \in InputFiles
    /\ pc = "read"
    /\ RmsdIdle /\ ConvIdle /\ measure = <<>>

NextRmsd == ReadXyz \/ AdjustAll \/ CalcRmsd \/ WriteRmsdToFile

SpecRmsd == InitRmsd /\ [][NextRmsd]_vars

(* ---------------------------- xyz2com_crest_pc -------------------------- *)
\* np.array(array[i].split()[1:], dtype=np.float32): the three coordinates of
\* a coordinate line, the empty array for a line of a single token
Coords(line) == IF line.kind = "atom" THEN line.xyz ELSE <<>>

Cross(u, v) == <<u[2] * v[3] - u[3] * v[2], u[3] * v[1] - u[1] * v[3],
                 u[1] * v[2] - u[2] * v[1]>>

NaN == [nan |-> TRUE, dot |-> 0, q |-> 0, neg |-> FALSE]

\* calc_length: the value is sqrt(q), kept as q.  A line index past the end
\* is an IndexError, and so is y[v] when y is shorter than x; an empty x
\* leaves the sum at 0.
calc_length(array, i, j) ==
    IF i >= Len(array) \/ j >= Len(array) THEN Failure
    ELSE LET x == Coords(Line(array, i))
             y == Coords(Line(array, j))
         IN  IF Len(x) > Len(y) THEN Failure
             ELSE Success([nan |-> FALSE, dot |-> 0, neg |-> FALSE,
                           q |-> SumSeq([v \in 1..Len(x) |-> (x[v] - y[v]) * (x[v] - y[v])])])

\* calc_angle: the value is arccos(dot / sqrt(q)) in degrees, kept as dot and
\* q; 0/0 is nan.  Arrays of different lengths do not subtract (ValueError).
calc_angle(array, i, j, k) ==
    IF i >= Len(array) \/ j >= Len(array) \/ k >= Len(array) THEN Failure
    ELSE LET atomA == Coords(Line(array, i))
             atomB == Coords(Line(array, j))
             atomC == Coords(Line(array, k))
         IN  IF Len(atomA) # Len(atomB) \/ Len(atomB) # Len(atomC) THEN Failure
             ELSE IF Len(atomA) = 0 THEN Success(NaN)
             ELSE LET AB == VecSub(atomB, atomA)
                      BC == VecSub(atomB, atomC)
                      q == Dot(AB, AB) * Dot(BC, BC)
                  IN  IF q = 0 THEN Success(NaN)
                      ELSE Success([nan |-> FALSE, dot |-> Dot(AB, BC), q |-> q,
                                    neg |-> FALSE])

\* faulty variant: BC taken as in calc_angle, atomB - atomC
calc_dihedral_bc_reversed(array, i, j, k, m) ==
    IF i >= Len(array) \/ j >= Len(array) \/ k >= Len(array) \/ m >= Len(array)
    THEN Failure
    ELSE LET atomA == Coords(Line(array, i))
             atomB == Coords(Line(array, j))
             atomC == Coords(Line(array, k))
             atomD == Coords(Line(array, m))
         IN  IF Len(atomA) = 0 \/ Len(atomB) = 0 \/ Len(atomC) = 0 \/ Len(atomD) = 0
             THEN Failure
             ELSE LET AB == VecSub(atomB, atomA)
                      BC == VecSub(atomB, atomC)
                      CD == VecSub(atomD, atomC)
                      n1 == Cross(AB, BC)
                      n2 == Cross(BC, CD)
                      q == Dot(n1, n1) * Dot(n2, n2)
                      n3 == Cross(n1, n2)
                  IN  IF q = 0 THEN Success(NaN)
                      ELSE Success([nan |-> FALSE, dot |-> Dot(n1, n2), q |-> q,
                                    neg |-> Dot(n3, BC) < 0])

\* calc_dihedral: the value is arccos(dot / sqrt(q)) in degrees, negated
\* when neg; np.cross refuses empty arrays (ValueError); 0/0 is nan and nan
\* is left unsigned.
calc_dihedral(array, i, j, k, m) ==
    IF i >= Len(array) \/ j >= Len(array) \/ k >= Len(array) \/ m >= Len(array)
    THEN Failure
    ELSE LET atomA == Coords(Line(array, i))
             atomB == Coords(Line(array, j))
             atomC == Coords(Line(array, k))
             atomD == Coords(Line(array, m))
         IN  IF Len(atomA) = 0 \/ Len(atomB) = 0 \/ Len(atomC) = 0 \/ Len(atomD) = 0
             THEN Failure
             ELSE LET AB == VecSub(atomB, atomA)
                      BC == VecSub(atomC, atomB)
                      CD == VecSub(atomD, atomC)
                      n1 == Cross(AB, BC)
                      n2 == Cross(BC, CD)
                      q == Dot(n1, n1) * Dot(n2, n2)
                      n3 == Cross(n1, n2)
                  IN  IF q = 0 THEN Success(NaN)
                      ELSE Success([nan |-> FALSE, dot |-> Dot(n1, n2), q |-> q,
                                    neg |-> Dot(n3, BC) < 0])

\* faulty variant: the shift past both header lines
ArgToLineZeroBased(a) == a + 2

\* int(sys.argv[k+1])+1
ArgToLine(a) == a + 1

\* bd_atm1+i*(num_atom+2)
LineOf(atm, i, num_atom) == atm + i * (num_atom + 2)

\* the lines handed to a calc_ function for frame i, with the caller's index
Handed(kind, atm, i, num_atom, args) ==
    {[kind |-> kind, frame |-> i, arg |-> args[k],
      line |-> LineOf(atm[k], i, num_atom)] : k \in 1..Len(atm)}

\* main, lines 83-171: the file, num_atom, num_conf and the flags
ParseInput ==
    /\ pc = "parse"
    /\ IF Len(xyz_file) = 0 \/ ~opts.argv_ok THEN pc' = "error" /\ UNCHANGED loc
       ELSE IF Line(xyz_file, 0).kind # "count" THEN pc' = "error" /\ UNCHANGED loc
       ELSE LET num_atom == Line(xyz_file, 0).n
                num_conf == Len(xyz_file) \div (num_atom + 2)
            IN  /\ loc' = [loc EXCEPT
                      !.num_atom = num_atom,
                      !.num_conf = num_conf,
                      !.trsd = IF opts.n = <<>> THEN num_conf ELSE opts.n[1],
                      !.bd = IF opts.l = <<>> THEN @
                             ELSE [k \in 1..2 |-> ArgToLine(opts.l[k])],
                      !.angle = IF opts.a = <<>> THEN @
                                ELSE [k \in 1..3 |-> ArgToLine(opts.a[k])],
                      !.dihedral = IF opts.d = <<>> THEN @
                                   ELSE [k \in 1..4 |-> ArgToLine(opts.d[k])]]
                /\ pc' = "folder"
    /\ UNCHANGED <<xyz_file, rmsdVars, opts, fs, reads, measure>>

LoopHead(i, trsd) == IF i < trsd THEN "bond" ELSE "plots"

\* faulty variant: an existing folder is reused
CheckFolderReuse ==
    /\ pc = "folder"
    /\ fs' = [fs EXCEPT !.folder = ~opts.folder_exists]
    /\ pc' = LoopHead(0, loc.trsd)
    /\ UNCHANGED <<xyz_file, rmsdVars, opts, loc, reads, measure>>

\* main, lines 173-178
CheckFolder ==
    /\ pc = "folder"
    /\ IF ~opts.folder_exists
       THEN fs' = [fs EXCEPT !.folder = TRUE] /\ pc' = LoopHead(0, loc.trsd)
       ELSE pc' = "exit" /\ UNCHANGED fs
    /\ UNCHANGED <<xyz_file, rmsdVars, opts, loc, reads, measure>>

\* main, lines 182-189, for frame loc.i
MeasureBond ==
    /\ pc = "bond"
    /\ IF loc.bd[1] >= 2 /\ loc.bd[2] >= 2
       THEN LET r == calc_length(xyz_file, LineOf(loc.bd[1], loc.i, loc.num_atom),
                                 LineOf(loc.bd[2], loc.i, loc.num_atom))
            IN  /\ reads' = reads \cup Handed("l", loc.bd, loc.i, loc.num_atom, opts.l)
                /\ IF r.ok
                   THEN /\ loc' = [loc EXCEPT !.bd_length_asb = Append(@, r.val)]
                        /\ fs' = [fs EXCEPT !.bond_length = Append(@, <<loc.i + 1, r.val>>)]
                        /\ pc' = "angle"
                   ELSE pc' = "error" /\ UNCHANGED <<loc, fs>>
       ELSE pc' = "angle" /\ UNCHANGED <<loc, fs, reads>>
    /\ UNCHANGED <<xyz_file, rmsdVars, opts, measure>>

\* main, lines 192-199
MeasureAngle ==
    /\ pc = "angle"
    /\ IF loc.angle[1] >= 2 /\ loc.angle[2] >= 2 /\ loc.angle[3] >= 2
       THEN LET r == calc_angle(xyz_file, LineOf(loc.angle[1], loc.i, loc.num_atom),
                                LineOf(loc.angle[2], loc.i, loc.num_atom),
                                LineOf(loc.angle[3], loc.i, loc.num_atom))
            IN  /\ reads' = reads \cup Handed("a", loc.angle, loc.i, loc.num_atom, opts.a)
                /\ IF r.ok
                   THEN /\ loc' = [loc EXCEPT !.angle_asb = Append(@, r.val)]
                        /\ fs' = [fs EXCEPT !.angle = Append(@, <<loc.i + 1, r.val>>)]
                        /\ pc' = "dihedral"
                   ELSE pc' = "error" /\ UNCHANGED <<loc, fs>>
       ELSE pc' = "dihedral" /\ UNCHANGED <<loc, fs, reads>>
    /\ UNCHANGED <<xyz_file, rmsdVars, opts, measure>>

\* main, lines 202-209
MeasureDihedral ==
    /\ pc = "dihedral"
    /\ IF loc.dihedral[1] >= 2 /\ loc.dihedral[2] >= 2 /\ loc.dihedral[3] >= 2
          /\ loc.dihedral[4] >= 2
       THEN LET r == calc_dihedral(xyz_file, LineOf(loc.dihedral[1], loc.i, loc.num_atom),
                                   LineOf(loc.dihedral[2], loc.i, loc.num_atom),
                                   LineOf(loc.dihedral[3], loc.i, loc.num_atom),
                                   LineOf(loc.dihedral[4], loc.i, loc.num_atom))
            IN  /\ reads' = reads \cup Handed("d", loc.dihedral, loc.i, loc.num_atom, opts.d)
                /\ IF r.ok
                   THEN /\ loc' = [loc EXCEPT !.dihedral_asb = Append(@, r.val)]
                        /\ fs' = [fs EXCEPT !.dihedral = Append(@, <<loc.i + 1, r.val>>)]
                        /\ pc' = "com"
                   ELSE pc' = "error" /\ UNCHANGED <<loc, fs>>
       ELSE pc' = "com" /\ UNCHANGED <<loc, fs, reads>>
    /\ UNCHANGED <<xyz_file, rmsdVars, opts, measure>>

\* main, lines 212-245: crest_conformers_<i+1>.com is opened (created), the
\* keyword lines and the frame's num_atom coordinate lines are copied; a
\* line index past the end stops the run with the file left behind.
WriteCom ==
    /\ pc = "com"
    /\ LET want == [j \in 1..loc.num_atom |-> 2 + (j - 1) + loc.i * (loc.num_atom + 2)]
           got == {j \in 1..loc.num_atom : \A h \in 1..j : want[h] < Len(xyz_file)}
       IN  /\ fs' = [fs EXCEPT !.com = @ \cup
                        {[index |-> loc.i + 1, copied |-> [j \in got |-> want[j]]]}]
           /\ IF Cardinality(got) = loc.num_atom
              THEN /\ loc' = [loc EXCEPT !.i = @ + 1]
                   /\ pc' = LoopHead(loc.i + 1, loc.trsd)
              ELSE pc' = "error" /\ UNCHANGED loc
    /\ UNCHANGED <<xyz_file, rmsdVars, opts, reads, measure>>

\* main, lines 247-269: one plot per measured kind
Plots ==
    /\ pc = "plots"
    /\ fs' = [fs EXCEPT !.plots =
                 (IF Len(loc.bd_length_asb) # 0 THEN {"Bond"} ELSE {})
                 \cup (IF Len(loc.angle_asb) # 0 THEN {"Angle"} ELSE {})
                 \cup (IF Len(loc.dihedral_asb) # 0 THEN {"Dihedral"} ELSE {})]
    /\ pc' = "done"
    /\ UNCHANGED <<xyz_file, rmsdVars, opts, loc, reads, measure>>

\* input files of the conversion run: F frames of N atoms each, whole or
\* damaged, or followed by one more line
AtomAt(f, j) == <<j, f, j * f>>
UniformFile(N, F) == EnsembleLines([f \in 1..F |-> [j \in 1..N |-> AtomAt(f, j)]])
ConvFiles ==
    {<<>>} \cup UNION {Damaged(UniformFile(N, F)) \cup {UniformFile(N, F) \o <<CountLine(N)>>} :
                         N \in 1..MaxAtoms, F \in 1..MaxConf}

\* measurement requests: none, one kind, or all three along one index tuple
Idx == 0..MaxIdx
Request(l, a, d) == [l |-> l, a |-> a, d |-> d]
Requests ==
    {Request(<<>>, <<>>, <<>>)}
    \cup {Request(t, <<>>, <<>>) : t \in [1..2 -> Idx]}
    \cup {Request(<<>>, t, <<>>) : t \in [1..3 -> Idx]}
    \cup {Request(<<>>, <<>>, t) : t \in [1..4 -> Idx]}
    \cup {Request(SubSeq(t, 1, 2), SubSeq(t, 1, 3), t) : t \in [1..4 -> Idx]}

\* the command lines: the -n limit and the requests, or flags that do not parse
\* (a flag without its values, a value that is no integer)
CommandLines ==
    {[argv_ok |-> TRUE, l |-> r.l, a |-> r.a, d |-> r.d, n |-> n] :
        r \in Requests, n \in {<<>>} \cup {<<k>> : k \in 0..(MaxConf + 1)}}
    \cup {[argv_ok |-> FALSE, l |-> <<>>, a |-> <<>>, d |-> <<>>, n |-> <<>>]}

InitConv ==
    /\ xyz_file \in ConvFiles
    /\ pc = "parse"
    /\ \E c \in CommandLines, fe \in BOOLEAN :
          opts = [folder_exists |-> fe, argv_ok |-> c.argv_ok, l |-> c.l, a |-> c.a,
                  d |-> c.d, n |-> c.n]
    /\ loc = IdleLoc /\ fs = NoFiles /\ reads = {}
    /\ RmsdIdle /\ measure = <<>>

NextConv ==
    \/ ParseInput \/ CheckFolder \/ MeasureBond \/ MeasureAngle \/ MeasureDihedral
    \/ WriteCom \/ Plots

SpecConv == InitConv /\ [][NextConv]_vars

(* calc_dihedral on its own: four coordinate lines, read in both orders *)
GeoPoints == {<<x, y, z>> : x \in 0..MaxCoord, y \in 0..MaxCoord, z \in 0..MaxCoord}

InitGeom ==
    /\ xyz_file \in {[k \in 1..4 |-> AtomLine(t[k])] : t \in [1..4 -> GeoPoints]}
    /\ pc = "geom"
    /\ RmsdIdle /\ ConvIdle /\ measure = <<>>

Dihedrals ==
    /\ pc = "geom"
    /\ measure' = [fwd |-> calc_dihedral(xyz_file, 0, 1, 2, 3),
                   rev |-> calc_dihedral(xyz_file, 3, 2, 1, 0)]
    /\ pc' = "done"
    /\ UNCHANGED <<xyz_file, rmsdVars, convVars>>

NextGeom == Dihedrals

SpecGeom == InitGeom /\ [][NextGeom]_vars

(* write_rmsd_to_file on its own: any list of non-negative values *)
RmsdSamples == {[num |-> a, den |-> b] : a \in 0..MaxNum, b \in 1..MaxDen}

InitClassify ==
    /\ xyz_file = <<>>
    /\ pc = "write"
    /\ rmsd_values \in UNION {[1..m -> RmsdSamples] : m \in 0..MaxValues}
    /\ conformers = <<>> /\ adjusted = <<>> /\ report = NoReport
    /\ ConvIdle /\ measure = <<>>

NextClassify == WriteRmsdToFile

SpecClassify == InitClassify /\ [][NextClassify]_vars

(* the ensemble of section 8: three conformers of one atom each *)
ScenarioPoints == {<<0, 0, 0>>, <<1, 0, 0>>, <<0, 3, 0>>}
ScenarioFile == EnsembleLines(<< <<(<<0, 0, 0>>)>>, <<(<<1, 0, 0>>)>>, <<(<<0, 3, 0>>)>> >>)

InitScenario ==
    /\ xyz_file \in {EnsembleLines(e) : e \in [1..3 -> [1..1 -> ScenarioPoints]]}
    /\ pc = "read"
    /\ RmsdIdle /\ ConvIdle /\ measure = <<>>

SpecScenario == InitScenario /\ [][NextRmsd]_vars

(* ------------------------------ claims --------------------------------- *)
Occurrences(list, i) == Cardinality({k \in 1..Len(list) : list[k] = i})

\* the half-open interval each band stands for, on sqrt(num / den) >= 0
InBand(r, c) ==
    CASE c = "smaller_than_0.5" -> 4 * r.num < r.den
      [] c = "0.5_to_1.0" -> r.den <= 4 * r.num /\ r.num < r.den
      [] c = "1.0_to_2.0" -> r.den <= r.num /\ r.num < 4 * r.den
      [] c = "above_2.0" -> 4 * r.den <= r.num

\* C1: every index 1..n is listed once, in exactly one band, the band whose
\* half-open interval holds its value; 0.5, 1.0 and 2.0 go to the upper band.
C1_BandsPartition ==
    report.written =>
        /\ \A c \in CategoryNames : \A k \in 1..Len(report.categories[c]) :
               report.categories[c][k] \in 1..Len(report.values)
        /\ \A i \in 1..Len(report.values) :
               LET v == report.values[i]
               IN  /\ \A c \in CategoryNames :
                          Occurrences(report.categories[c], i) = (IF InBand(v, c) THEN 1 ELSE 0)
                   /\ Cardinality({c \in CategoryNames :
                          Occurrences(report.categories[c], i) > 0}) = 1
                   /\ (4 * v.num = v.den => Occurrences(report.categories["0.5_to_1.0"], i) = 1)
                   /\ (v.num = v.den => Occurrences(report.categories["1.0_to_2.0"], i) = 1)
                   /\ (v.num = 4 * v.den => Occurrences(report.categories["above_2.0"], i) = 1)

C1_Witness ==
    /\ report.written
    /\ \E i, j \in 1..Len(report.values) :
          /\ 4 * report.values[i].num = report.values[i].den
          /\ report.values[j].num = 4 * report.values[j].den
          /\ report.categories["0.5_to_1.0"] = <<i>>
          /\ report.categories["above_2.0"] = <<j>>

\* C2: once any RMSD exists every frame has been recentred on its own atom 0;
\* the finished list has one value per conformer, the first is 0, and value i
\* is the root mean square of the differences of the recentred coordinates.
Sq(x) == x * x
RecentredDiffSq(c1, ci, k) ==
    SumSeq([ax \in 1..3 |-> Sq((c1[k][ax] - c1[1][ax]) - (ci[k][ax] - ci[1][ax]))])

C2_RecentreThenRmsd ==
    /\ Len(rmsd_values) > 0 =>
          /\ Len(adjusted) = Len(conformers)
          /\ \A f \in 1..Len(conformers) :
                /\ Len(adjusted[f]) = Len(conformers[f])
                /\ adjusted[f][1] = <<0, 0, 0>>
                /\ \A k \in 1..Len(conformers[f]) : \A ax \in 1..3 :
                       adjusted[f][k][ax] = conformers[f][k][ax] - conformers[f][1][ax]
    /\ pc \in {"write", "done"} =>
          /\ Len(rmsd_values) = Len(conformers)
          /\ rmsd_values[1].num = 0
          /\ \A i \in 1..Len(conformers) :
                Len(conformers[i]) = Len(conformers[1]) =>
                   /\ rmsd_values[i].den = Len(conformers[1])
                   /\ rmsd_values[i].num =
                         SumSeq([k \in 1..Len(conformers[1]) |->
                                    RecentredDiffSq(conformers[1], conformers[i], k)])
    /\ report.written => report.values = rmsd_values

C2_Witness ==
    /\ pc = "done"
    /\ Len(rmsd_values) = 2
    /\ conformers[1][1] # <<0, 0, 0>>
    /\ conformers[2][1] # conformers[1][1]
    /\ Len(conformers[2]) = 2 /\ Len(conformers[1]) = 2
    /\ rmsd_values[2].num > 0

\* C3 as stated: the scenario ensemble yields RMSD 0, 1.0 and 3.0, classified
\* smaller_than_0.5, 0.5_to_1.0 and above_2.0.
C3_Original ==
    (pc = "done" /\ xyz_file = ScenarioFile) =>
        /\ report.values = <<[num |-> 0, den |-> 1], [num |-> 1, den |-> 1],
                             [num |-> 9, den |-> 1]>>
        /\ report.categories["smaller_than_0.5"] = <<1>>
        /\ report.categories["0.5_to_1.0"] = <<2>>
        /\ report.categories["above_2.0"] = <<3>>

\* C3 amended: each one-atom frame recentres to the origin, so the scenario
\* ensemble yields RMSD 0 three times and all three conformers are listed
\* in smaller_than_0.5.
C3_ScenarioAllZero ==
    (pc = "done" /\ xyz_file = ScenarioFile) =>
        /\ report.written
        /\ report.values = <<[num |-> 0, den |-> 1], [num |-> 0, den |-> 1],
                             [num |-> 0, den |-> 1]>>
        /\ report.categories["smaller_than_0.5"] = <<1, 2, 3>>
        /\ report.categories["0.5_to_1.0"] = <<>>
        /\ report.categories["1.0_to_2.0"] = <<>>
        /\ report.categories["above_2.0"] = <<>>

C3_Witness == pc = "done" /\ xyz_file = ScenarioFile /\ Len(report.values) = 3

\* C4 as stated: an RMSD is never produced for two frames of different atom
\* counts, and an ensemble holding such a pair never gets a report.
C4_MismatchFails ==
    /\ \A i \in 1..Len(rmsd_values) : Len(adjusted[i]) = Len(adjusted[1])
    /\ report.written =>
          \A i \in 1..Len(conformers) : Len(conformers[i]) = Len(conformers[1])

\* C5: when the output folder exists at the start, the run stops at the
\* folder check or before it and nothing is created, appended or overwritten.
C5_ExistingFolderUntouched ==
    opts.folder_exists =>
        /\ fs = NoFiles
        /\ pc \in {"parse", "folder", "exit", "error"}

C5_Witness ==
    /\ opts.folder_exists /\ pc = "exit"
    /\ opts.l # <<>> /\ opts.a # <<>> /\ opts.d # <<>> /\ opts.n # <<>>
    /\ loc.trsd > 0 /\ loc.bd[1] >= 2 /\ loc.bd[2] >= 2

\* C6 as stated: a line count that is no multiple of atomCount+2, or a frame
\* limit above the frames present, fails the run and leaves no output.
FirstCount == Line(xyz_file, 0).n
ShapeViolation ==
    /\ Len(xyz_file) > 0
    /\ Line(xyz_file, 0).kind = "count"
    /\ \/ Len(xyz_file) % (FirstCount + 2) # 0
       \/ opts.n # <<>> /\ opts.n[1] > Len(xyz_file) \div (FirstCount + 2)

C6_ShapeViolationNoOutput ==
    ShapeViolation => fs = NoFiles /\ pc # "done"

\* C7 as stated: an atom-count line of any frame that is no integer fails the
\* run before any output exists.
BadCountLine ==
    /\ Len(xyz_file) > 0
    /\ \/ Line(xyz_file, 0).kind # "count"
       \/ \E f \in 1..Len(xyz_file) :
             /\ f * (FirstCount + 2) < Len(xyz_file)
             /\ Line(xyz_file, f * (FirstCount + 2)).kind # "count"

C7_BadCountFailsFirst ==
    BadCountLine => fs = NoFiles /\ ~report.written /\ pc # "done"

\* the kinds, the request of each and the position right after its step
Kinds == {"l", "a", "d"}
RequestOf(k) == IF k = "l" THEN opts.l ELSE IF k = "a" THEN opts.a ELSE opts.d
After(k) == IF k = "l" THEN "angle" ELSE IF k = "a" THEN "dihedral" ELSE "com"

\* C9 as stated: a request whose indices lie in 0..atomCount-1 is active and
\* index a reads raw line 2 + a + i*(atomCount+2) in frame i.
C9_Original ==
    /\ \A r \in reads : r.line = 2 + r.arg + r.frame * (FirstCount + 2)
    /\ \A k \in Kinds :
          LET t == RequestOf(k)
          IN  (/\ pc = After(k) /\ t # <<>>
               /\ \A h \in 1..Len(t) : t[h] \in 0..(loc.num_atom - 1))
              => \A h \in 1..Len(t) : \E r \in reads :
                    r.kind = k /\ r.frame = loc.i /\ r.arg = t[h]

\* C9 amended: a request is active exactly when every index it names is at
\* least 1, and index a then reads raw line 1 + a + i*(atomCount+2) in every
\* processed frame i: indices are 1-based, 1 selects the frame's first atom.
C9_OneBasedLine ==
    /\ \A r \in reads :
          /\ r.arg >= 1
          /\ r.line = 1 + r.arg + r.frame * (FirstCount + 2)
    /\ \A k \in Kinds :
          LET t == RequestOf(k)
          IN  pc = After(k) =>
                 IF t # <<>> /\ \A h \in 1..Len(t) : t[h] >= 1
                 THEN \A h \in 1..Len(t) :
                         [kind |-> k, frame |-> loc.i, arg |-> t[h],
                          line |-> 1 + t[h] + loc.i * (FirstCount + 2)] \in reads
                 ELSE \A r \in reads : r.kind # k

C9_Witness ==
    /\ pc = "done"
    /\ \E r \in reads :
          /\ r.kind = "a" /\ r.frame = 1 /\ r.arg = 1
          /\ r.line = FirstCount + 4
          /\ Line(xyz_file, r.line).kind = "atom"
          /\ Line(xyz_file, r.line - 1).kind = "text"

\* C10 as stated, on a well-formed file with the frame limit inside it: every
\* line handed to a calc_ function for frame i is one of the atomCount
\* coordinate lines of frame i, inside the file.
C10_ReadsInsideFrame ==
    (~ShapeViolation /\ ~BadCountLine) =>
        \A r \in reads :
            /\ r.line >= 2 + r.frame * (FirstCount + 2)
            /\ r.line <= 1 + FirstCount + r.frame * (FirstCount + 2)
            /\ r.line < Len(xyz_file)

\* comparisons of two dihedral values arccos(dot / sqrt(q)), signed by neg
Sign(x) == IF x > 0 THEN 1 ELSE IF x < 0 THEN 0 - 1 ELSE 0
SameMagnitude(v, w) ==
    /\ Sign(v.dot) = Sign(w.dot)
    /\ v.dot * v.dot * w.q = w.dot * w.dot * v.q
IsZeroAngle(v) == v.dot > 0 /\ v.dot * v.dot = v.q
EqualsNegation(v, w) ==
    /\ SameMagnitude(v, w)
    /\ IsZeroAngle(v) \/ v.neg # w.neg

\* C8 as stated: for points with no three consecutive ones colinear,
\* dihedral(a,b,c,d) == -dihedral(d,c,b,a).
C8_Original ==
    (pc = "done" /\ measure.fwd.ok /\ ~measure.fwd.val.nan) =>
        /\ measure.rev.ok /\ ~measure.rev.val.nan
        /\ EqualsNegation(measure.fwd.val, measure.rev.val)

\* C8 amended: for such points dihedral(a,b,c,d) == dihedral(d,c,b,a), the
\* magnitude and the sign both kept, and the sign is negative exactly when
\* ((AB x BC) x (BC x CD)) . BC < 0.
C8_ReversalKeepsDihedral ==
    (pc = "done" /\ measure.fwd.ok /\ ~measure.fwd.val.nan) =>
        LET a == xyz_file[1].xyz
            b == xyz_file[2].xyz
            c == xyz_file[3].xyz
            d == xyz_file[4].xyz
            AB == VecSub(b, a)
            BC == VecSub(c, b)
            CD == VecSub(d, c)
        IN  /\ measure.rev.ok /\ ~measure.rev.val.nan
            /\ SameMagnitude(measure.fwd.val, measure.rev.val)
            /\ measure.fwd.val.neg = measure.rev.val.neg
            /\ measure.fwd.val.neg <=>
                  Dot(Cross(Cross(AB, BC), Cross(BC, CD)), BC) < 0

C8_Witness ==
    /\ pc = "done" /\ measure.fwd.ok /\ ~measure.fwd.val.nan
    /\ measure.fwd.val.neg /\ measure.rev.val.neg
    /\ ~IsZeroAngle(measure.fwd.val)

Init == InitRmsd \/ InitClassify \/ InitScenario \/ InitConv \/ InitGeom
Next == NextRmsd \/ NextConv \/ NextGeom
Spec == Init /\ [][Next]_vars

====
